---- MODULE Spec2Model ----
(***************************************************************************)
(* Model of PathAutocomplete (src/src/features/PathAutocompleteProvider.ts) *)
(* A string is a sequence of one-character strings.                        *)
(***************************************************************************)
EXTENDS Integers, Sequences, FiniteSets, TLC

VARIABLES configuration, currentFile, fs, req, call

vars == <<configuration, currentFile, fs, req, call>>

(* ----------------------------- bounds --------------------------------- *)

\* longest line drawn for the scanners (shouldProvide, getUserPath)
MaxLen == 4

\* longest fragment drawn for applyMapping
MaxFragLen == 3

\* most entries of a drawn pathMappings table
MaxMappings == 2

\* number of completion requests issued on the one provider instance
MaxRequests == 2

(* ------------------------- string primitives --------------------------- *)

\* String.prototype.charAt(i), 0-based: '' outside the string
CharAt(s, i) == IF i >= 0 /\ i < Len(s) THEN s[i + 1] ELSE ""

\* String.prototype.substring(from, to), 0-based, to exclusive
Substring(s, from, to) ==
    LET a == IF from < 0 THEN 0 ELSE IF from > Len(s) THEN Len(s) ELSE from
        b == IF to < 0 THEN 0 ELSE IF to > Len(s) THEN Len(s) ELSE to
        lo == IF a <= b THEN a ELSE b
        hi == IF a <= b THEN b ELSE a
    IN  SubSeq(s, lo + 1, hi)

\* String.prototype.startsWith(p)
StartsWith(s, p) == Len(p) <= Len(s) /\ SubSeq(s, 1, Len(p)) = p

\* whether p occurs in s at 0-based index i
OccursAt(s, p, i) == i >= 0 /\ i + Len(p) <= Len(s) /\ SubSeq(s, i + 1, i + Len(p)) = p

\* String.prototype.indexOf(p): the least index of an occurrence, -1 if none
IndexOf(s, p) ==
    LET hits == {i \in 0..Len(s) : OccursAt(s, p, i)}
    IN  IF hits = {} THEN -1 ELSE CHOOSE i \in hits : \A j \in hits : i <= j

\* String.prototype.replace(pattern, replacement) with a string pattern:
\* only the first occurrence is replaced
StrReplace(s, p, r) ==
    LET i == IndexOf(s, p)
    IN  IF i = -1 THEN s
        ELSE SubSeq(s, 1, i) \o r \o SubSeq(s, i + Len(p) + 1, Len(s))

\* all strings over alphabet A of length at most n
RECURSIVE StringsUpTo(_, _)
StringsUpTo(A, n) ==
    IF n = 0 THEN {<<>>}
    ELSE LET shorter == StringsUpTo(A, n - 1)
         IN  shorter \cup {Append(s, c) : s \in {t \in shorter : Len(t) = n - 1}, c \in A}

\* the backtick character (the lexer of TLA+ accepts no backtick in a string)
Backtick == "BACKTICK"

QuoteChars == {"'", "\"", Backtick}
SeparatorChars == {" ", "\t", "(", "{", "["}

(* ---------------------------- shouldProvide ---------------------------- *)

\* one toggle of a quote counter: quotes.x += quotes.x > 0 ? -1 : 1
Toggle(n) == IF n > 0 THEN n - 1 ELSE n + 1

\* the loop of shouldProvide, iterations i .. position-1, from counters q
RECURSIVE QuoteScan(_, _, _, _)
QuoteScan(currentLine, position, i, q) ==
    IF i >= position THEN q
    ELSE LET c == CharAt(currentLine, i)
             unescaped == CharAt(currentLine, i - 1) # "\\"
             q1 == [single   |-> IF c = "'" /\ unescaped THEN Toggle(q.single) ELSE q.single,
                    double   |-> IF c = "\"" /\ unescaped THEN Toggle(q.double) ELSE q.double,
                    backtick |-> IF c = Backtick /\ unescaped THEN Toggle(q.backtick) ELSE q.backtick]
         IN  QuoteScan(currentLine, position, i + 1, q1)

shouldProvide(data, currentLine, position) ==
    IF data.triggerOutsideStrings THEN TRUE
    ELSE LET quotes == QuoteScan(currentLine, position, 0,
                                 [single |-> 0, double |-> 0, backtick |-> 0])
         IN  quotes.single # 0 \/ quotes.double # 0 \/ quotes.backtick # 0

(* ----------------------------- getUserPath ----------------------------- *)

\* the loop of getUserPath from index i: <<lastQuote, lastSeparator>>
RECURSIVE UserPathScan(_, _, _, _, _)
UserPathScan(currentLine, currentPosition, i, lastQuote, lastSeparator) ==
    IF i >= currentPosition THEN <<lastQuote, lastSeparator>>
    ELSE LET c == CharAt(currentLine, i)
         IN  IF c = "\\"
             THEN UserPathScan(currentLine, currentPosition, i + 2, lastQuote, lastSeparator)
             ELSE IF c \in SeparatorChars
             THEN UserPathScan(currentLine, currentPosition, i + 1, lastQuote, i)
             ELSE IF c \in QuoteChars
             THEN UserPathScan(currentLine, currentPosition, i + 1, i, lastSeparator)
             ELSE UserPathScan(currentLine, currentPosition, i + 1, lastQuote, lastSeparator)

\* getUserPath taking the later of the two delimiters instead of preferring the quote
getUserPath_LaterDelimiter(currentLine, currentPosition) ==
    LET scan == UserPathScan(currentLine, currentPosition, 0, -1, -1)
        startPosition == IF scan[1] > scan[2] THEN scan[1] ELSE scan[2]
    IN  Substring(currentLine, startPosition + 1, currentPosition)

getUserPath(currentLine, currentPosition) ==
    LET scan == UserPathScan(currentLine, currentPosition, 0, -1, -1)
        lastQuote == scan[1]
        lastSeparator == scan[2]
        startPosition == IF lastQuote # -1 THEN lastQuote ELSE lastSeparator
    IN  Substring(currentLine, startPosition + 1, currentPosition)

(* --------------------- node's path module (posix) ---------------------- *)

\* Paths are modelled as path.posix treats them: / is the only separator and a
\* drive-letter path such as c:/x is relative to the working directory.

\* the segments of p between its slashes
RECURSIVE SplitFrom(_, _, _, _)
SplitFrom(p, i, cur, acc) ==
    IF i > Len(p) THEN Append(acc, cur)
    ELSE IF p[i] = "/" THEN SplitFrom(p, i + 1, <<>>, Append(acc, cur))
    ELSE SplitFrom(p, i + 1, Append(cur, p[i]), acc)

SplitSlash(p) == SplitFrom(p, 1, <<>>, <<>>)

RECURSIVE JoinSlash(_)
JoinSlash(segs) ==
    IF Len(segs) = 0 THEN <<>>
    ELSE IF Len(segs) = 1 THEN segs[1]
    ELSE segs[1] \o <<"/">> \o JoinSlash(Tail(segs))

\* normalizeString: drops empty and "." segments, resolves ".." segments
RECURSIVE NormalizeSegs(_, _, _)
NormalizeSegs(segs, acc, allowAboveRoot) ==
    IF Len(segs) = 0 THEN acc
    ELSE LET s == Head(segs)
             rest == Tail(segs)
         IN  IF s = <<>> \/ s = <<".">> THEN NormalizeSegs(rest, acc, allowAboveRoot)
             ELSE IF s = <<".", ".">>
             THEN IF Len(acc) > 0 /\ acc[Len(acc)] # <<".", ".">>
                  THEN NormalizeSegs(rest, SubSeq(acc, 1, Len(acc) - 1), allowAboveRoot)
                  ELSE IF allowAboveRoot
                  THEN NormalizeSegs(rest, Append(acc, s), allowAboveRoot)
                  ELSE NormalizeSegs(rest, acc, allowAboveRoot)
             ELSE NormalizeSegs(rest, Append(acc, s), allowAboveRoot)

IsAbsolute(p) == Len(p) > 0 /\ p[1] = "/"

\* path.normalize
PathNormalize(p) ==
    IF Len(p) = 0 THEN <<".">>
    ELSE LET isAbs == IsAbsolute(p)
             trailing == p[Len(p)] = "/"
             body == JoinSlash(NormalizeSegs(SplitSlash(p), <<>>, ~isAbs))
         IN  IF Len(body) = 0
             THEN IF isAbs THEN <<"/">> ELSE IF trailing THEN <<".", "/">> ELSE <<".">>
             ELSE (IF isAbs THEN <<"/">> ELSE <<>>) \o body
                  \o (IF trailing THEN <<"/">> ELSE <<>>)

\* path.join(a, b): empty arguments are skipped
PathJoin(a, b) ==
    IF Len(a) = 0 /\ Len(b) = 0 THEN <<".">>
    ELSE IF Len(a) = 0 THEN PathNormalize(b)
    ELSE IF Len(b) = 0 THEN PathNormalize(a)
    ELSE PathNormalize(a \o <<"/">> \o b)

\* process.cwd() of the extension host
Cwd == <<"/">>

\* path.resolve(p): absolute, normalized, no trailing slash
PathResolve(p) ==
    LET full == IF IsAbsolute(p) THEN p ELSE Cwd \o <<"/">> \o p
    IN  <<"/">> \o JoinSlash(NormalizeSegs(SplitSlash(full), <<>>, FALSE))

\* p without its trailing slashes (a lone "/" is kept)
RECURSIVE StripTrailingSlashes(_)
StripTrailingSlashes(p) ==
    IF Len(p) > 1 /\ p[Len(p)] = "/" THEN StripTrailingSlashes(SubSeq(p, 1, Len(p) - 1))
    ELSE p

\* 1-based index of the last slash of p, 0 if none
LastSlash(p) ==
    LET at == {i \in 1..Len(p) : p[i] = "/"}
    IN  IF at = {} THEN 0 ELSE CHOOSE i \in at : \A j \in at : j <= i

\* path.dirname
PathDirname(p) ==
    IF Len(p) = 0 THEN <<".">>
    ELSE LET q == StripTrailingSlashes(p)
             k == LastSlash(q)
         IN  IF q = <<"/">> THEN <<"/">>
             ELSE IF k = 0 THEN <<".">>
             ELSE IF k = 1 THEN <<"/">>
             ELSE StripTrailingSlashes(SubSeq(q, 1, k - 1))

\* path.parse(p).dir
PathParseDir(p) ==
    LET k == LastSlash(p)
    IN  IF k = 0 THEN <<>> ELSE IF k = 1 THEN <<"/">> ELSE SubSeq(p, 1, k - 1)

\* path.extname of a name without slashes
PathExtname(name) ==
    LET dots == {i \in 2..Len(name) : name[i] = "."}
    IN  IF dots = {} THEN <<>>
        ELSE SubSeq(name, CHOOSE i \in dots : \A j \in dots : j <= i, Len(name))

\* path.basename(name, ext) of a name without slashes
PathBasename(name, ext) ==
    IF Len(ext) > 0 /\ Len(ext) <= Len(name)
       /\ SubSeq(name, Len(name) - Len(ext) + 1, Len(name)) = ext
    THEN SubSeq(name, 1, Len(name) - Len(ext))
    ELSE name

(* ------------------------------ filesystem ----------------------------- *)

\* fs maps each path of the modelled tree to "dir", "file", "nostat" (listed by
\* readdir, stat throws) or "absent"
FsKind(fsys, p) ==
    LET q == PathResolve(p)
    IN  IF q \in DOMAIN fsys THEN fsys[q] ELSE "absent"

\* fs.existsSync
ExistsSync(fsys, p) == FsKind(fsys, p) # "absent"

\* fs.lstatSync(p).isDirectory()
IsDirectory(fsys, p) == FsKind(fsys, p) = "dir"

(* ----------------------------- applyMapping ---------------------------- *)

Digits == <<"0", "1", "2", "3", "4", "5", "6", "7", "8", "9">>

DigitSet == {Digits[i] : i \in 1..Len(Digits)}

DigitValue(c) == (CHOOSE i \in 1..Len(Digits) : Digits[i] = c) - 1

RECURSIVE NumValue(_)
NumValue(k) ==
    IF Len(k) = 0 THEN 0
    ELSE 10 * NumValue(SubSeq(k, 1, Len(k) - 1)) + DigitValue(k[Len(k)])

\* whether a property key is an integer index (a canonical numeric string)
IsIntegerKey(k) ==
    /\ Len(k) > 0
    /\ Len(k) <= 9
    /\ \A i \in 1..Len(k) : k[i] \in DigitSet
    /\ (Len(k) = 1 \/ k[1] # "0")

RECURSIVE SortKeys(_)
SortKeys(ks) ==
    IF ks = {} THEN <<>>
    ELSE LET least == CHOOSE k \in ks : \A o \in ks : NumValue(k) <= NumValue(o)
         IN  <<least>> \o SortKeys(ks \ {least})

\* Object.keys(mappings): mappings is the table in declaration order, a sequence
\* of [key, path] with distinct keys. Integer keys come first, ascending, then
\* the other keys in the order they were declared.
ObjectKeys(mappings) ==
    LET declared == [i \in 1..Len(mappings) |-> mappings[i].key]
        IsInt(k) == IsIntegerKey(k)
        IsOther(k) == ~IsIntegerKey(k)
    IN  SortKeys({declared[i] : i \in {j \in 1..Len(declared) : IsInt(declared[j])}})
        \o SelectSeq(declared, IsOther)

\* configuration.data.pathMappings[key]
MappingPath(mappings, key) ==
    (CHOOSE m \in {mappings[i] : i \in 1..Len(mappings)} : m.key = key).path

WorkspaceVar == <<"$", "{", "w", "o", "r", "k", "s", "p", "a", "c", "e", "}">>
FolderVar == <<"$", "{", "f", "o", "l", "d", "e", "r", "}">>
HomeVar == <<"$", "{", "h", "o", "m", "e", "}">>
RootKey == <<"$", "r", "o", "o", "t">>

\* the .map callback of applyMapping: the target of key with its variables replaced
CandidatePath(data, key) ==
    LET p0 == MappingPath(data.pathMappings, key)
        p1 == IF Len(data.workspaceRootPath) > 0
              THEN StrReplace(p0, WorkspaceVar, data.workspaceRootPath) ELSE p0
        p2 == IF Len(data.workspaceFolderPath) > 0
              THEN StrReplace(p1, FolderVar, data.workspaceFolderPath) ELSE p1
    IN  StrReplace(p2, HomeVar, data.homeDirectory)

\* the .some callback's test
MappingMatches(insertedPath, key) == StartsWith(insertedPath, key) \/ key = RootKey

\* applyMapping with .forEach in place of .some: every matching key is applied,
\* the last one deciding currentDir
RECURSIVE ApplyEvery(_, _, _, _)
ApplyEvery(data, keys, currentDir, insertedPath) ==
    IF Len(keys) = 0 THEN [currentDir |-> currentDir, insertedPath |-> insertedPath]
    ELSE IF MappingMatches(insertedPath, Head(keys))
    THEN ApplyEvery(data, Tail(keys), CandidatePath(data, Head(keys)),
                    StrReplace(insertedPath, Head(keys), <<>>))
    ELSE ApplyEvery(data, Tail(keys), currentDir, insertedPath)

applyMapping_Every(data, insertedPath) ==
    ApplyEvery(data, ObjectKeys(data.pathMappings), <<>>, insertedPath)

applyMapping(data, insertedPath) ==
    LET keys == ObjectKeys(data.pathMappings)
        hits == {i \in 1..Len(keys) : MappingMatches(insertedPath, keys[i])}
    IN  IF hits = {} THEN [currentDir |-> <<>>, insertedPath |-> insertedPath]
        ELSE LET first == CHOOSE i \in hits : \A j \in hits : i <= j
             IN  [currentDir |-> CandidatePath(data, keys[first]),
                  insertedPath |-> StrReplace(insertedPath, keys[first], <<>>)]

(* --------------------- directory resolution ladder --------------------- *)

Lower == {"a", "b", "c", "d", "e", "f", "g", "h", "i", "j", "k", "l", "m",
          "n", "o", "p", "q", "r", "s", "t", "u", "v", "w", "x", "y", "z"}
Upper == {"A", "B", "C", "D", "E", "F", "G", "H", "I", "J", "K", "L", "M",
          "N", "O", "P", "Q", "R", "S", "T", "U", "V", "W", "X", "Y", "Z"}
Letters == Lower \cup Upper

RequireWord == <<"r", "e", "q", "u", "i", "r", "e">>
ImportWord == <<"i", "m", "p", "o", "r", "t">>
NodeModules == <<"n", "o", "d", "e", "_", "m", "o", "d", "u", "l", "e", "s">>

isNodePackage(insertedPath, currentLine) ==
    IF IndexOf(currentLine, RequireWord) = -1 /\ IndexOf(currentLine, ImportWord) = -1
    THEN FALSE
    ELSE IF ~(Len(insertedPath) > 0 /\ insertedPath[1] \in Letters) THEN FALSE
    ELSE TRUE

\* the while loop of getNodeModulesPath; <<>> when it ends without a find
RECURSIVE NodeModulesWalk(_, _)
NodeModulesWalk(fsys, currentDir) ==
    IF currentDir = PathDirname(currentDir) THEN <<>>
    ELSE LET candidatePath == PathJoin(currentDir, NodeModules)
         IN  IF ExistsSync(fsys, candidatePath) THEN candidatePath
             ELSE NodeModulesWalk(fsys, PathDirname(currentDir))

getNodeModulesPath(data, fsys, currentDir) ==
    LET rootPath == data.workspaceFolderPath
        found == NodeModulesWalk(fsys, currentDir)
    IN  IF found # <<>> THEN found ELSE PathJoin(rootPath, NodeModules)

getCurrentDirectory(data, fileName, insertedPath) ==
    LET parsed == PathParseDir(fileName)
        fileDir == IF Len(parsed) > 0 THEN parsed ELSE <<"/">>
        workspacePath == data.workspaceFolderPath
    IN  IF StartsWith(insertedPath, <<"/">>) /\ Len(workspacePath) > 0
        THEN PathResolve(workspacePath)
        ELSE PathResolve(fileDir)

\* insertedPath.match(/^[a-z]:/i)
IsDiskPath(insertedPath) ==
    Len(insertedPath) >= 2 /\ insertedPath[1] \in Letters /\ insertedPath[2] = ":"

\* getFolderPath with the npm package test moved to the top of the ladder
getFolderPath_PackageFirst(data, fsys, fileName, currentLine, currentPosition) ==
    LET userPath == getUserPath(currentLine, currentPosition)
        mappingResult == applyMapping(data, userPath)
        insertedPath == mappingResult.insertedPath
        currentDir == IF Len(mappingResult.currentDir) > 0 THEN mappingResult.currentDir
                      ELSE getCurrentDirectory(data, fileName, insertedPath)
    IN  IF isNodePackage(insertedPath, currentLine)
        THEN PathJoin(getNodeModulesPath(data, fsys, currentDir), insertedPath)
        ELSE IF IsDiskPath(insertedPath) THEN PathResolve(insertedPath)
        ELSE IF StartsWith(insertedPath, <<"~">>)
        THEN PathJoin(data.homeDirectory, Substring(insertedPath, 1, Len(insertedPath)))
        ELSE PathJoin(currentDir, insertedPath)

getFolderPath(data, fsys, fileName, currentLine, currentPosition) ==
    LET userPath == getUserPath(currentLine, currentPosition)
        mappingResult == applyMapping(data, userPath)
        insertedPath == mappingResult.insertedPath
        currentDir == IF Len(mappingResult.currentDir) > 0 THEN mappingResult.currentDir
                      ELSE getCurrentDirectory(data, fileName, insertedPath)
    IN  IF IsDiskPath(insertedPath) THEN PathResolve(insertedPath)
        ELSE IF StartsWith(insertedPath, <<"~">>)
        THEN PathJoin(data.homeDirectory, Substring(insertedPath, 1, Len(insertedPath)))
        ELSE IF isNodePackage(insertedPath, currentLine)
        THEN PathJoin(getNodeModulesPath(data, fsys, currentDir), insertedPath)
        ELSE PathJoin(currentDir, insertedPath)

(* ------------------------- common initial values ----------------------- *)

Requests == 1..MaxRequests

\* configuration.data before any mapping, exclusion or transformation is set
BaseData ==
    [triggerOutsideStrings |-> FALSE,
     withExtension |-> FALSE,
     enableFolderTrailingSlash |-> FALSE,
     homeDirectory |-> <<"/", "h">>,
     workspaceRootPath |-> <<"/", "w">>,
     workspaceFolderPath |-> <<"/", "w">>,
     pathMappings |-> <<>>,
     transformations |-> <<>>,
     excludedItems |-> <<>>]

\* a request that was not issued yet
NoRequest ==
    [pc |-> "new", fileName |-> <<>>, currentLine |-> <<>>, position |-> 0,
     triggerOutsideStrings |-> FALSE, folderPath |-> <<>>, cancelled |-> FALSE,
     io |-> {}, listed |-> FALSE, filterFile |-> <<>>, result |-> <<>>]

NoFs == [p \in {<<"/">>} |-> "dir"]

IdleProvider ==
    /\ currentFile = <<>>
    /\ req = [r \in Requests |-> NoRequest]

(* ------------- the scanners applied to every short line --------------- *)

LineChars == {"'", "\"", "\\", " ", "a"}

InitScan ==
    /\ IdleProvider
    /\ fs = NoFs
    /\ \E t \in BOOLEAN : configuration = [BaseData EXCEPT !.triggerOutsideStrings = t]
    /\ \E line \in StringsUpTo(LineChars, MaxLen) : \E position \in 0..Len(line) :
          call = [fn |-> "none", currentLine |-> line, position |-> position,
                  ret |-> <<>>]

CallShouldProvide ==
    /\ call.fn = "none"
    /\ call' = [call EXCEPT !.fn = "shouldProvide",
                            !.ret = shouldProvide(configuration, call.currentLine, call.position)]
    /\ UNCHANGED <<configuration, currentFile, fs, req>>

CallGetUserPath ==
    /\ call.fn = "none"
    /\ call' = [call EXCEPT !.fn = "getUserPath",
                            !.ret = getUserPath(call.currentLine, call.position)]
    /\ UNCHANGED <<configuration, currentFile, fs, req>>

NextScan == CallShouldProvide \/ CallGetUserPath

SpecScan == InitScan /\ [][NextScan]_vars

(* C4: quote pairs as the claim reads them.  A quote is escaped when the
   character before it is a backslash; a pair is opened by an unescaped quote
   and closed by the next unescaped quote of the same kind, the quotes of
   another kind between them being text. *)

QuoteAt(line, i) == CharAt(line, i) \in QuoteChars /\ CharAt(line, i - 1) # "\\"

\* scan of the whole line: the matched pairs <<open, close>> and the index of
\* a quote left open (-1 if none)
RECURSIVE PairScan(_, _, _, _)
PairScan(line, i, open, pairs) ==
    IF i >= Len(line) THEN [pairs |-> pairs, open |-> open]
    ELSE IF ~QuoteAt(line, i) THEN PairScan(line, i + 1, open, pairs)
    ELSE IF open = -1 THEN PairScan(line, i + 1, i, pairs)
    ELSE IF CharAt(line, open) = CharAt(line, i)
    THEN PairScan(line, i + 1, -1, pairs \cup {<<open, i>>})
    ELSE PairScan(line, i + 1, open, pairs)

QuotePairs(line) == PairScan(line, 0, -1, {})

\* the cursor at column col is after the opening quote and before the closing one
InsideQuotePair(line, col) ==
    \E pr \in QuotePairs(line).pairs : pr[1] < col /\ col <= pr[2]

\* the cursor is in no matched pair and after no quote left open
OutsideQuotes(line, col) ==
    /\ ~InsideQuotePair(line, col)
    /\ LET o == QuotePairs(line).open IN o = -1 \/ col <= o

\* C4 (as claimed): with triggerOutsideStrings = false, shouldProvide is true
\* when the cursor is strictly inside a matched pair of unescaped quotes and
\* false when it is outside any quote pair.
C4_QuoteContextAsClaimed ==
    (call.fn = "shouldProvide" /\ ~configuration.triggerOutsideStrings) =>
        /\ InsideQuotePair(call.currentLine, call.position) => call.ret = TRUE
        /\ OutsideQuotes(call.currentLine, call.position) => call.ret = FALSE

(* C5: the fragment, stated from the positions of the delimiters *)

\* the character at i is escaped: it follows a backslash that is not itself escaped
RECURSIVE EscapedChain(_, _)
EscapedChain(line, i) ==
    i > 0 /\ CharAt(line, i - 1) = "\\" /\ ~EscapedChain(line, i - 1)

\* the character at i is escaped, read literally: it follows a backslash
EscapedLiteral(line, i) == CharAt(line, i - 1) = "\\"

Greatest(S) == IF S = {} THEN -1 ELSE CHOOSE i \in S : \A j \in S : j <= i

\* start: the last unescaped quote, else the last unescaped separator, else -1
FragmentStart(line, col, Esc(_, _)) ==
    LET q == {i \in 0..(col - 1) : CharAt(line, i) \in QuoteChars /\ ~Esc(line, i)}
        p == {i \in 0..(col - 1) : CharAt(line, i) \in SeparatorChars /\ ~Esc(line, i)}
    IN  IF q # {} THEN Greatest(q) ELSE Greatest(p)

\* C5 (as claimed): getUserPath is the substring from start+1 to the cursor, a
\* character immediately following a backslash being escaped and never a delimiter.
C5_FragmentAsClaimed ==
    call.fn = "getUserPath" =>
        call.ret = SubSeq(call.currentLine,
                          FragmentStart(call.currentLine, call.position, EscapedLiteral) + 2,
                          call.position)

\* C5 (amended): getUserPath is the substring from start+1 to the cursor, where a
\* character is escaped when it follows a backslash that is not itself escaped.
C5_FragmentAmended ==
    call.fn = "getUserPath" =>
        call.ret = SubSeq(call.currentLine,
                          FragmentStart(call.currentLine, call.position, EscapedChain) + 2,
                          call.position)

\* an escaped space is passed over, and a quote after an escaped backslash starts
\* the fragment
C5_Witness ==
    /\ call.fn = "getUserPath"
    /\ call.position = Len(call.currentLine)
    /\ \/ /\ call.currentLine = <<"a", "\\", " ", "a">>
          /\ call.ret = call.currentLine
       \/ /\ call.currentLine = <<"\\", "\\", "'", "a">>
          /\ call.ret = <<"a">>

(* ---------------- applyMapping applied to drawn tables ----------------- *)

MappingKeys == {<<"@">>, <<"@", "a">>, <<"1">>, RootKey}
MappingTargets == {WorkspaceVar \o <<"/", "s">>, HomeVar}
MappingEntries == [key : MappingKeys, path : MappingTargets]

\* the tables of at most n entries with distinct keys, in declaration order
RECURSIVE TablesUpTo(_)
TablesUpTo(n) ==
    IF n = 0 THEN {<<>>}
    ELSE LET shorter == TablesUpTo(n - 1)
         IN  shorter \cup
             {Append(t, e) : t \in {u \in shorter : Len(u) = n - 1},
                             e \in MappingEntries} 

DistinctKeys(t) == \A i, j \in 1..Len(t) : t[i].key = t[j].key => i = j

Fragments ==
    StringsUpTo({"@", "a", "1"}, MaxFragLen)
    \cup {RootKey \o <<"/", "a">>, <<"a">> \o RootKey \o <<"1">>}

InitMapping ==
    /\ IdleProvider
    /\ fs = NoFs
    /\ \E t \in {u \in TablesUpTo(MaxMappings) : DistinctKeys(u)} :
       \E root \in {<<>>, <<"/", "w">>} :
          configuration = [BaseData EXCEPT !.pathMappings = t, !.workspaceRootPath = root]
    /\ \E f \in Fragments :
          call = [fn |-> "none", insertedPath |-> f, ret |-> <<>>]

CallApplyMapping ==
    /\ call.fn = "none"
    /\ call' = [call EXCEPT !.fn = "applyMapping",
                            !.ret = applyMapping(configuration, call.insertedPath)]
    /\ UNCHANGED <<configuration, currentFile, fs, req>>

NextMapping == CallApplyMapping

SpecMapping == InitMapping /\ [][NextMapping]_vars

\* position of key in the declared table
DeclaredAt(table, key) == CHOOSE i \in 1..Len(table) : table[i].key = key

\* k1 comes before k2 in declaration order
DeclaredBefore(table, k1, k2) == DeclaredAt(table, k1) < DeclaredAt(table, k2)

\* k1 comes before k2 when the keys of the table object are enumerated: integer
\* keys first, in ascending order, then the other keys as declared
EnumeratedBefore(table, k1, k2) ==
    IF IsIntegerKey(k1) /\ IsIntegerKey(k2) THEN NumValue(k1) < NumValue(k2)
    ELSE IF IsIntegerKey(k1) THEN TRUE
    ELSE IF IsIntegerKey(k2) THEN FALSE
    ELSE DeclaredBefore(table, k1, k2)

\* out is s with exactly its first occurrence of key removed (s when there is none)
FirstOccurrenceRemoved(s, key, out) ==
    IF \A i \in 0..Len(s) : ~OccursAt(s, key, i) THEN out = s
    ELSE \E i \in 0..Len(s) :
            /\ OccursAt(s, key, i)
            /\ \A j \in 0..(i - 1) : ~OccursAt(s, key, j)
            /\ out = SubSeq(s, 1, i) \o SubSeq(s, i + Len(key) + 1, Len(s))

\* the contract of applyMapping when the winner is the first matching key in
\* the order Before
MappingContract(Before(_, _, _)) ==
    LET table == configuration.pathMappings
        frag == call.insertedPath
        matching == {table[i].key : i \in {j \in 1..Len(table) :
                        StartsWith(frag, table[j].key) \/ table[j].key = RootKey}}
    IN  IF matching = {}
        THEN call.ret = [currentDir |-> <<>>, insertedPath |-> frag]
        ELSE \E w \in matching :
                /\ \A o \in matching \ {w} : Before(table, w, o)
                /\ call.ret.currentDir = CandidatePath(configuration, w)
                /\ FirstOccurrenceRemoved(frag, w, call.ret.insertedPath)

\* C6 (as claimed): the winning mapping is the first one in declaration order
\* whose key is a prefix of the fragment or is $root; currentDir is its
\* substituted target and insertedPath the fragment with the first occurrence
\* of the key removed; with no match currentDir is absent and the fragment is
\* unchanged.
C6_MappingAsClaimed == call.fn = "applyMapping" => MappingContract(DeclaredBefore)

\* C6 (amended): the same, the winner being the first matching key in the
\* enumeration order of the table's keys (integer keys ascending, then the
\* others in declaration order).
C6_MappingAmended == call.fn = "applyMapping" => MappingContract(EnumeratedBefore)

\* two keys match, the one declared first wins and only it is stripped
C6_Witness ==
    /\ call.fn = "applyMapping"
    /\ Len(configuration.pathMappings) = 2
    /\ configuration.pathMappings[1].key = <<"@">>
    /\ configuration.pathMappings[2].key = <<"@", "a">>
    /\ call.insertedPath = <<"@", "a", "@">>
    /\ call.ret.insertedPath = <<"a", "@">>
    /\ call.ret.currentDir = CandidatePath(configuration, <<"@">>)

(* -------- directory resolution applied to drawn lines and trees -------- *)

DirW == <<"/", "w">>
DirH == <<"/", "h">>
DirWP == <<"/", "w", "/", "p">>

\* the levels at which a node_modules directory may exist
ModuleLevels == {<<"/">>, DirW, DirWP}

ModulesAt(level) == PathJoin(level, NodeModules)

\* the trees: /, /w, /w/p and /h exist; node_modules exists at the levels in has
TreeWith(has) ==
    [p \in {<<"/">>, DirW, DirWP, DirH} \cup {ModulesAt(l) : l \in ModuleLevels} |->
        IF p \in {<<"/">>, DirW, DirWP, DirH} THEN "dir"
        ELSE IF \E l \in has : p = ModulesAt(l) THEN "dir" ELSE "absent"]

Trees == {TreeWith(has) : has \in SUBSET ModuleLevels}

FileNames == {DirW \o <<"/", "a", ".", "j", "s">>, DirWP \o <<"/", "b", ".", "j", "s">>}

LinePrefixes == {<<"'">>, ImportWord \o <<" ", "'">>, RequireWord \o <<"(", "'">>}

LineFragments ==
    {<<"c", ":", "/", "x">>, <<"~", "/", "d">>, <<"~">>, <<"x">>, <<".", "/", "p">>,
     <<"/", "p">>, <<"@", "/", "x">>, <<"@", "c", ":">>, <<"@", "~", "/", "d">>,
     <<"@", "x">>}

ResolveTables ==
    {<<>>, <<[key |-> <<"@">>, path |-> DirWP]>>, <<[key |-> <<"@">>, path |-> DirH]>>}

InitResolve ==
    /\ IdleProvider
    /\ fs \in Trees
    /\ \E t \in ResolveTables : \E folder \in {DirW, DirWP} :
          configuration = [BaseData EXCEPT !.pathMappings = t,
                                           !.workspaceFolderPath = folder]
    /\ \E f \in FileNames : \E pre \in LinePrefixes : \E frag \in LineFragments :
       \E dir \in ModuleLevels :
          call = [fn |-> "none", fileName |-> f, prefix |-> pre, fragment |-> frag,
                  startDir |-> dir, ret |-> <<>>]

CallGetNodeModulesPath ==
    /\ call.fn = "none"
    /\ call' = [call EXCEPT !.fn = "getNodeModulesPath",
                            !.ret = getNodeModulesPath(configuration, fs, call.startDir)]
    /\ UNCHANGED <<configuration, currentFile, fs, req>>

CallGetFolderPath ==
    /\ call.fn = "none"
    /\ LET line == call.prefix \o call.fragment
       IN  call' = [call EXCEPT !.fn = "getFolderPath",
                                !.ret = getFolderPath(configuration, fs, call.fileName,
                                                      line, Len(line))]
    /\ UNCHANGED <<configuration, currentFile, fs, req>>

NextResolve == CallGetNodeModulesPath \/ CallGetFolderPath

SpecResolve == InitResolve /\ [][NextResolve]_vars

\* dir and all of its ancestors up to the filesystem root
RECURSIVE SelfAndAncestors(_)
SelfAndAncestors(dir) ==
    IF PathDirname(dir) = dir THEN {dir}
    ELSE {dir} \cup SelfAndAncestors(PathDirname(dir))

\* C8 (as claimed): getNodeModulesPath returns the node_modules directory of the
\* nearest level, among the start directory and all of its ancestors up to the
\* filesystem root, at which one exists, and the workspace path joined with
\* node_modules only when no level has one.  (The fallback is accepted with
\* either of the configured workspace paths.)
C8_NearestModulesAsClaimed ==
    call.fn = "getNodeModulesPath" =>
        LET levels == SelfAndAncestors(call.startDir)
            having == {l \in levels : ExistsSync(fs, ModulesAt(l))}
        IN  IF having # {}
            THEN \E l \in having :
                    /\ \A o \in having : Len(o) <= Len(l)
                    /\ call.ret = ModulesAt(l)
            ELSE call.ret \in {ModulesAt(configuration.workspaceRootPath),
                               ModulesAt(configuration.workspaceFolderPath)}

(* C9: the ladder of getFolderPath *)

CallLine == call.prefix \o call.fragment

\* the insertedPath left by the mapping of the fragment under the cursor
CallInsertedPath ==
    applyMapping(configuration, getUserPath(CallLine, Len(CallLine))).insertedPath

\* the current directory the ladder starts from
CallCurrentDir ==
    LET m == applyMapping(configuration, getUserPath(CallLine, Len(CallLine)))
    IN  IF Len(m.currentDir) > 0 THEN m.currentDir
        ELSE getCurrentDirectory(configuration, call.fileName, m.insertedPath)

\* the configurations that differ from the current one in the mapping targets
\* and the workspace folder only
OtherTargets ==
    {[configuration EXCEPT !.pathMappings = t, !.workspaceFolderPath = w] :
        t \in {u \in ResolveTables :
                 /\ Len(u) = Len(configuration.pathMappings)
                 /\ \A i \in 1..Len(u) : u[i].key = configuration.pathMappings[i].key},
        w \in {DirW, DirWP}}

\* the results for the same fragment whatever the active file, the mapping
\* target, the tree and the words before the fragment
ResultsElsewhere ==
    {getFolderPath(d, t, f, pre \o call.fragment, Len(pre \o call.fragment)) :
        d \in OtherTargets, t \in Trees, f \in FileNames, pre \in LinePrefixes}

\* C9: a drive-letter insertedPath resolves on its own, whatever currentDir, the
\* mapping target and the package test; otherwise an insertedPath starting with ~
\* is the home directory joined with the remainder, whatever currentDir and
\* whether or not the line holds require/import; otherwise a package reference
\* resolves under node_modules in preference to the join with currentDir.
C9_LadderPrecedence ==
    call.fn = "getFolderPath" =>
        LET ins == CallInsertedPath
        IN  IF Len(ins) >= 2 /\ ins[1] \in Letters /\ ins[2] = ":"
            THEN /\ call.ret = PathResolve(ins)
                 /\ ResultsElsewhere = {call.ret}
            ELSE IF Len(ins) >= 1 /\ ins[1] = "~"
            THEN /\ call.ret = PathJoin(configuration.homeDirectory, Tail(ins))
                 /\ ResultsElsewhere = {call.ret}
            ELSE (IndexOf(CallLine, RequireWord) # -1 \/ IndexOf(CallLine, ImportWord) # -1)
                 /\ Len(ins) >= 1 /\ ins[1] \in Letters
                 => call.ret = PathJoin(getNodeModulesPath(configuration, fs, CallCurrentDir), ins)

\* a mapped drive-letter path on an import line, where the package test passes too
C9_Witness ==
    /\ call.fn = "getFolderPath"
    /\ call.fragment = <<"@", "c", ":">>
    /\ call.prefix = ImportWord \o <<" ", "'">>
    /\ Len(configuration.pathMappings) = 1
    /\ isNodePackage(CallInsertedPath, CallLine)
    /\ call.ret = <<"/", "c", ":">>

(* ------------------- candidates of provideCompletionItems -------------- *)

\* the last segment of a path
LastSegment(p) == SubSeq(p, LastSlash(p) + 1, Len(p))

\* whether new FileInfo(path) throws: the entry cannot be inspected
FileInfoThrows(fsys, p) == FsKind(fsys, p) \in {"nostat", "absent"}

\* new FileInfo(path): getName(), getPath(), isDirectory()
FileInfo(fsys, p) ==
    [name |-> LastSegment(p), path |-> p, isDirectory |-> FsKind(fsys, p) = "dir"]

GlobStarPrefix == <<"*", "*", "/", "*">>

\* minimatch(p, pattern) for the patterns of the form **/*<suffix> and for
\* patterns without wildcards
Minimatch(p, pattern) ==
    IF StartsWith(pattern, GlobStarPrefix)
    THEN LET suffix == SubSeq(pattern, Len(GlobStarPrefix) + 1, Len(pattern))
             base == LastSegment(p)
         IN  /\ Len(base) > Len(suffix)
             /\ base[1] # "."
             /\ SubSeq(base, Len(base) - Len(suffix) + 1, Len(base)) = suffix
    ELSE p = pattern

\* filter(file) with this.currentFile = activeFile
filter(data, activeFile, file) ==
    ~ \E i \in 1..Len(data.excludedItems) :
          /\ Minimatch(activeFile, data.excludedItems[i].when)
          /\ Minimatch(file.path, data.excludedItems[i].key)

\* the forEach over the transformations, from rule i on; a pattern is a regular
\* expression without special characters
RECURSIVE ApplyTransformations(_, _, _, _)
ApplyTransformations(rules, i, fileName, insertText) ==
    IF i > Len(rules) THEN insertText
    ELSE LET transform == rules[i]
             skip == Len(transform.fileName) > 0 /\ IndexOf(fileName, transform.fileName) = -1
             parameters == transform.parameters
         IN  IF skip THEN ApplyTransformations(rules, i + 1, fileName, insertText)
             ELSE IF transform.type = "replace" /\ Len(parameters) > 0 /\ Len(parameters[1]) > 0
             THEN ApplyTransformations(rules, i + 1, fileName,
                                       StrReplace(insertText, parameters[1], parameters[2]))
             ELSE ApplyTransformations(rules, i + 1, fileName, insertText)

getInsertText(data, file) ==
    LET base == IF data.withExtension \/ file.isDirectory THEN file.name
                ELSE PathBasename(file.name, PathExtname(file.name))
    IN  ApplyTransformations(data.transformations, 1, file.name, base)

\* the completion item built for one file
Completion(data, file) ==
    [label |-> IF file.isDirectory THEN file.name \o <<"/">> ELSE file.name,
     insertText |-> getInsertText(data, file),
     sortText |-> IF file.isDirectory THEN "d" ELSE "f",
     command |-> file.isDirectory /\ data.enableFolderTrailingSlash]

\* new vs.CompletionItem('..')
UpOneFolder == [label |-> <<".", ".">>, insertText |-> <<>>, sortText |-> "", command |-> FALSE]

RECURSIVE MapCompletions(_, _)
MapCompletions(data, files) ==
    IF Len(files) = 0 THEN <<>>
    ELSE <<Completion(data, Head(files))>> \o MapCompletions(data, Tail(files))

\* the list with the up-one-folder item pushed at the end instead of unshifted
CompletionList_Push(data, activeFile, items) ==
    LET Keep(file) == filter(data, activeFile, file)
    IN  Append(MapCompletions(data, SelectSeq(items, Keep)), UpOneFolder)

\* the callback given to getFolderItems(folderPath).then
CompletionList(data, activeFile, items) ==
    LET Keep(file) == filter(data, activeFile, file)
    IN  <<UpOneFolder>> \o MapCompletions(data, SelectSeq(items, Keep))

(* --------------------------- getFolderItems ---------------------------- *)

\* the order in which readdir lists the entries of the modelled tree
ReaddirOrder ==
    <<DirW \o <<"/", "a", ".", "j", "s">>,
      DirW \o <<"/", "s">>,
      DirW \o <<"/", "a", ".", "m", "a", "p">>,
      DirW \o <<"/", "l">>,
      DirW \o <<"/", "e">>,
      DirW \o <<"/", "b", ".", "t", "s">>>>

\* fs.readdir(folderPath): the names of its entries
Readdir(fsys, folderPath) ==
    LET InFolder(p) == PathDirname(p) = PathResolve(folderPath) /\ FsKind(fsys, p) # "absent"
        listed == SelectSeq(ReaddirOrder, InFolder)
    IN  [i \in 1..Len(listed) |-> LastSegment(listed[i])]

\* the readdir callback: one FileInfo per entry, the entries whose FileInfo throws dropped
RECURSIVE FolderItems(_, _, _)
FolderItems(fsys, folderPath, names) ==
    IF Len(names) = 0 THEN <<>>
    ELSE LET itemPath == PathJoin(folderPath, Head(names))
         IN  (IF FileInfoThrows(fsys, itemPath) THEN <<>> ELSE <<FileInfo(fsys, itemPath)>>)
             \o FolderItems(fsys, folderPath, Tail(names))

(* ------------------------ provideCompletionItems ----------------------- *)

\* the tree of the workspace: /w holds a.js, s/, a.map, l (stat fails), e/ (empty), b.ts
WorkspaceTree ==
    [p \in {<<"/">>, DirW} \cup {ReaddirOrder[i] : i \in 1..Len(ReaddirOrder)} |->
        IF p \in {<<"/">>, DirW, DirW \o <<"/", "s">>, DirW \o <<"/", "e">>} THEN "dir"
        ELSE IF p = DirW \o <<"/", "l">> THEN "nostat"
        ELSE "file"]

\* the directory another process may remove while a request is running
RemovableDirs == {DirW \o <<"/", "e">>}

\* the documents completion is asked in, with the cursor columns asked at
Documents ==
    {[fileName |-> DirW \o <<"/", "a", ".", "j", "s">>,
      currentLine |-> <<"'", ".", "/", "'">>, columns |-> {0, 3}],
     [fileName |-> DirW \o <<"/", "b", ".", "t", "s">>,
      currentLine |-> <<"'", "e", "/", "'">>, columns |-> {3}],
     [fileName |-> DirW \o <<"/", "a", ".", "j", "s">>,
      currentLine |-> <<"\"", "'", "\"", ".", "/">>, columns |-> {5}]}

\* the settings configuration.update(document.uri) may load
Settings ==
    {[BaseData EXCEPT
        !.triggerOutsideStrings = t,
        !.excludedItems = <<[key |-> <<"*", "*", "/", "*", ".", "m", "a", "p">>,
                             when |-> <<"*", "*", "/", "*", ".", "j", "s">>]>>,
        !.transformations = <<[fileName |-> <<"b">>, type |-> "replace",
                               parameters |-> <<<<"b">>, <<"B">>>>]>>] :
        t \in BOOLEAN}

Init ==
    /\ IdleProvider
    /\ configuration = BaseData
    /\ fs = WorkspaceTree
    /\ call = [fn |-> "none"]

\* the synchronous part of provideCompletionItems, up to the call of fs.readdir
ProvideCompletionItems(r) ==
    /\ req[r].pc = "new"
    /\ \A o \in Requests : o < r => req[o].pc # "new"
    /\ \E document \in Documents : \E position \in document.columns :
       \E data \in Settings :
          LET currentLine == document.currentLine
              started == [req[r] EXCEPT !.fileName = document.fileName,
                                        !.currentLine = currentLine,
                                        !.position = position,
                                        !.triggerOutsideStrings = data.triggerOutsideStrings]
              folderPath == getFolderPath(data, fs, document.fileName, currentLine, position)
              exists == ExistsSync(fs, folderPath)
              checks == {"existsSync"} \cup (IF exists THEN {"lstatSync"} ELSE {})
          IN  /\ configuration' = data
              /\ currentFile' = document.fileName
              /\ IF ~shouldProvide(data, currentLine, position)
                 THEN req' = [req EXCEPT ![r] = [started EXCEPT !.pc = "resolved"]]
                 ELSE IF ~exists \/ ~IsDirectory(fs, folderPath)
                 THEN req' = [req EXCEPT ![r] = [started EXCEPT !.pc = "resolved",
                                                                !.folderPath = folderPath,
                                                                !.io = checks]]
                 ELSE req' = [req EXCEPT ![r] = [started EXCEPT !.pc = "reading",
                                                                !.folderPath = folderPath,
                                                                !.io = checks \cup {"readdir"}]]
    /\ UNCHANGED <<fs, call>>

\* the caller signals the cancellation token of a request whose read is outstanding
Cancel(r) ==
    /\ req[r].pc = "reading"
    /\ ~req[r].cancelled
    /\ req' = [req EXCEPT ![r].cancelled = TRUE]
    /\ UNCHANGED <<configuration, currentFile, fs, call>>

\* another process removes a directory
RemoveDirectory(d) ==
    /\ fs[d] = "dir"
    /\ fs' = [fs EXCEPT ![d] = "absent"]
    /\ UNCHANGED <<configuration, currentFile, req, call>>

\* the readdir callback and the then-callback it resolves into, or the rejection
ReaddirDone(r) ==
    /\ req[r].pc = "reading"
    /\ IF ~IsDirectory(fs, req[r].folderPath)
       THEN req' = [req EXCEPT ![r].pc = "rejected"]
       ELSE LET items == FolderItems(fs, req[r].folderPath, Readdir(fs, req[r].folderPath))
            IN  req' = [req EXCEPT ![r].pc = "resolved",
                                   ![r].listed = TRUE,
                                   ![r].io = @ \cup (IF Len(Readdir(fs, req[r].folderPath)) > 0
                                                     THEN {"stat"} ELSE {}),
                                   ![r].filterFile = currentFile,
                                   ![r].result = CompletionList(configuration, currentFile, items)]
    /\ UNCHANGED <<configuration, currentFile, fs, call>>

Next ==
    \/ \E r \in Requests : ProvideCompletionItems(r)
    \/ \E r \in Requests : Cancel(r)
    \/ \E d \in RemovableDirs : RemoveDirectory(d)
    \/ \E r \in Requests : ReaddirDone(r)

Spec == Init /\ [][Next]_vars

(* ------------------- claims on provideCompletionItems ------------------ *)

Settled(r) == req[r].pc \in {"resolved", "rejected"}

\* C1 (as claimed): a request whose token was signalled while its directory read
\* was outstanding ends with an empty result; no candidate list is delivered
\* after cancellation.
C1_CancelledYieldsEmpty ==
    \A r \in Requests :
        (req[r].cancelled /\ req[r].pc = "resolved") => req[r].result = <<>>

\* C2 (as claimed): a request that passed the gate and the directory check never
\* rejects; a failed directory read resolves to an empty list.
C2_FailedReadYieldsEmpty ==
    \A r \in Requests :
        (Settled(r) /\ "readdir" \in req[r].io /\ ~req[r].listed) =>
            req[r].pc = "resolved" /\ req[r].result = <<>>

\* C3 (as claimed): a request with triggerOutsideStrings = false whose cursor is
\* outside any quotes returns an empty list and invokes no filesystem operation.
C3_GatedOutDoesNoIO ==
    \A r \in Requests :
        (req[r].pc # "new" /\ ~req[r].triggerOutsideStrings
         /\ OutsideQuotes(req[r].currentLine, req[r].position)) =>
            req[r].pc = "resolved" /\ req[r].result = <<>> /\ req[r].io = {}

\* C7: when a request passed the gate, its directory exists and the read
\* succeeded, the first element of the returned list is the .. candidate.
C7_UpOneFolderFirst ==
    \A r \in Requests :
        (req[r].pc = "resolved" /\ req[r].listed) =>
            Len(req[r].result) >= 1 /\ req[r].result[1].label = <<".", ".">>

\* a listing of the empty directory, and one of a directory with entries
C7_Witness ==
    \E r, o \in Requests :
        /\ req[r].pc = "resolved" /\ req[r].listed
        /\ req[r].folderPath = DirW \o <<"/", "e", "/">>
        /\ req[r].result = <<UpOneFolder>>
        /\ req[o].pc = "resolved" /\ req[o].listed
        /\ Len(req[o].result) > 1

\* C10 (as claimed): the exclusion filter of a request evaluates the when globs
\* against the request's own active file, also when another request started
\* while its read was outstanding.
C10_FilterUsesOwnFile ==
    \A r \in Requests :
        (req[r].pc = "resolved" /\ req[r].listed) =>
            /\ req[r].filterFile = req[r].fileName
            /\ \A i \in 1..Len(req[r].result) :
                  req[r].result[i].label # <<"a", ".", "m", "a", "p">>
                  \/ ~Minimatch(req[r].fileName, <<"*", "*", "/", "*", ".", "j", "s">>)

====
